---- MODULE Spec2Model ----
(***************************************************************************)
(* Model of the bb-runner sandboxed-process lifecycle:                     *)
(*   - the CPU-slot queue (service.rs, ProcessorQueue),                    *)
(*   - the Run handler and its detached per-request task (service.rs),     *)
(*   - staging and the parent spawner (local_runner.rs spawn_child,        *)
(*     child.rs Command::spawn),                                           *)
(*   - the waiter (local_runner.rs wait_child),                            *)
(*   - the PID-1 process cloned for each request (child.rs child_pid1).    *)
(* Each request r owns one handler, one detached task and at most one      *)
(* PID-1; the kernel and the filesystem are the environment, whose         *)
(* syscall outcomes (success or error) are nondeterministic choices.       *)
(***************************************************************************)
EXTENDS Integers, Sequences, FiniteSets, TLC

\* ---------------------------------------------------------------- bounds
MaxReqs == 2
MaxCpus == 2

Reqs == 1..MaxReqs

\* ------------------------------------------------------------- constants
NoCpu == -1          \* `processor` before take_cpu has returned a slot
SIGKILL == 9         \* Signal::SIGKILL, sent by Child::kill
InternalExit == 255  \* Run's exit code for a task that returned an error
Pid1Err == -1        \* what clone_pid1 returns for a failed child_pid1

\* what the target command may do: exit codes and terminating signals
ExitCodes == {0, 7}
TargetSignals == {11}

\* the exit status the kernel reports for a process returning n
ExitByte(n) == n % 256

VARIABLES
    numCpus,     \* config.num_cpus
    queue,       \* ProcessorQueue: the VecDeque<u32> behind the mutex
    hpc,         \* position of the Run handler of each request
    tpc,         \* position of the detached task of each request
    token,       \* CancellationToken of the request: cancelled?
    processor,   \* the task's local `processor` (slot taken), NoCpu if none
    given,       \* the task has called give_cpu(processor)
    kill_sent,   \* wait_child's local kill_sent
    exit_resuse, \* wait_child's result, then the task's output (JoinHandle)
    reply,       \* what Run returned to the transport
    proc,        \* the PID-1 process of the request, as the kernel sees it
    pipe,        \* the start-gate pipe: byte written, open write ends
    written,     \* files the parent has written for PID-1, in order
    kills        \* number of SIGKILLs delivered to PID-1 by the waiter

svcvars == <<numCpus, queue, hpc, tpc, token, processor, given, kill_sent,
             exit_resuse, reply, proc, pipe, written, kills>>

\* The sandbox builder on its own (child.rs, Command) and the cgroup
\* filesystem its spawn writes to
VARIABLES
    cmd,         \* the Command under construction
    called,      \* builder methods called on cmd since it was made
    cgfs,        \* /sys/fs/cgroup/bb_runner: per job directory, its files
    sandbox      \* the sandbox last spawned: its cgroup and requested cap

cmdvars == <<cmd, called, cgfs, sandbox>>

\* The readiness probe (service.rs, check_readiness) and the filesystem
\* it looks at
VARIABLES
    fs,          \* the paths that exist
    probe        \* the last CheckReadiness: its path and its reply

readyvars == <<fs, probe>>

\* One PID-1 on its own, step by step (child.rs, child_pid1)
VARIABLES
    p1pc,        \* the step PID-1 is about to take
    p1done,      \* the setup steps that took effect, in order
    p1failed,    \* the setup steps in which a syscall failed
    p1gate,      \* the parent has written the gate byte
    p1host,      \* child_data.hostname
    p1rw,        \* child_data.rw_paths
    mtab,        \* the mount namespace's mount table and each entry's fate
    ridx,        \* remount pass: index of the next entry
    p1target,    \* the target command has been spawned
    p1exit       \* PID-1's exit status

pid1vars == <<p1pc, p1done, p1failed, p1gate, p1host, p1rw, mtab, ridx,
              p1target, p1exit>>

\* PID-1's signal state through reset_signals (child.rs)
VARIABLES
    sigpc,       \* the call reset_signals is about to make
    disp,        \* disposition of each signal
    sigmask,     \* the blocked signals
    pdeathsig,   \* the parent-death signal
    signext      \* sigaction loop: index of the next signal

sigvars == <<sigpc, disp, sigmask, pdeathsig, signext>>

\* One waiter and its PID-1 in real time (local_runner.rs, wait_child)
VARIABLES
    wpc,         \* wait_child: at the select!, at try_wait4, or returned
    wp1,         \* the waiter's PID-1: live, zombie or reaped
    chld,        \* the SIGCHLD stream `sig` has a notification to deliver
    untilTick,   \* seconds until `interval` is due
    sinceExit,   \* seconds since PID-1 became a zombie
    wtoken,      \* the token is cancelled
    wkill_sent,  \* wait_child's kill_sent
    wres         \* what wait_child returned

waitvars == <<wpc, wp1, chld, untilTick, sinceExit, wtoken, wkill_sent, wres>>

\* One StackMap (mmaps.rs)
VARIABLES
    stack_size,  \* the argument of StackMap::new
    stack        \* the StackMap and what became of it

stkvars == <<stack_size, stack>>

\* One wait4 that returned a status (child.rs, resource.rs)
VARIABLES
    rusage,      \* the rusage the kernel filled in
    usage,       \* the ResourceUsage made of it
    pbres        \* the PosixResourceUsage of the reply

usevars == <<rusage, usage, pbres>>

extvars == <<sigvars, waitvars, stkvars, usevars>>

aux == <<cmdvars, readyvars, pid1vars, extvars>>

vars == <<svcvars, aux>>

\* ------------------------------------------------------------ data shapes
NoStatus == [kind |-> "none", v |-> 0]
Exited(c) == [kind |-> "exited", v |-> c]
Signaled(s) == [kind |-> "signaled", v |-> s]

NoResult == [tag |-> "none", status |-> NoStatus, code |-> "none"]
OkResult(st) == [tag |-> "ok", status |-> st, code |-> "none"]
ErrResult(c) == [tag |-> "err", status |-> NoStatus, code |-> c]
PanicResult == [tag |-> "panic", status |-> NoStatus, code |-> "none"]

NoReply == [tag |-> "none", exit_code |-> 0, code |-> "none", rusage |-> FALSE]
OkReply(c, ru) == [tag |-> "ok", exit_code |-> c, code |-> "none", rusage |-> ru]
ErrReply(c) == [tag |-> "err", exit_code |-> 0, code |-> c, rusage |-> FALSE]

NoProc == [st |-> "none", status |-> NoStatus, gated |-> FALSE,
           execd |-> FALSE, pendingKill |-> FALSE, target |-> NoStatus]
NoPipe == [byte |-> FALSE, wends |-> {}]

Range(s) == {s[i] : i \in 1..Len(s)}

\* RunnerService::new: the queue holds 0 .. num_cpus-1 in order
InitQueue(n) == [i \in 1..n |-> i - 1]

SvcInit ==
    /\ numCpus \in 1..MaxCpus
    /\ queue = InitQueue(numCpus)
    /\ hpc = [r \in Reqs |-> "idle"]
    /\ tpc = [r \in Reqs |-> "none"]
    /\ token = [r \in Reqs |-> FALSE]
    /\ processor = [r \in Reqs |-> NoCpu]
    /\ given = [r \in Reqs |-> FALSE]
    /\ kill_sent = [r \in Reqs |-> FALSE]
    /\ exit_resuse = [r \in Reqs |-> NoResult]
    /\ reply = [r \in Reqs |-> NoReply]
    /\ proc = [r \in Reqs |-> NoProc]
    /\ pipe = [r \in Reqs |-> NoPipe]
    /\ written = [r \in Reqs |-> << >>]
    /\ kills = [r \in Reqs |-> 0]

\* ------------------------------------------------------ Command builder
\* Option<T> is a set with at most one element
None == {}
Some(x) == {x}

BaseNamespaces ==
    {"CLONE_NEWPID", "CLONE_NEWIPC", "CLONE_NEWNET", "CLONE_NEWNS",
     "CLONE_NEWUSER"}

\* what the builder methods are called with
Hostnames == {"sandbox"}
CgNames == {0, 1}
MemCaps == {4096}
RwChoices == {<<"/", "b">>, <<"/", "e">>}     \* "/b", "/e", by character
MaxRw == 2

\* From<process::Command> for Command
FromCommand ==
    [stdout |-> None, stderr |-> None, hostname |-> None, cgroup |-> None,
     mem_max |-> None, namespaces |-> BaseNamespaces, rw_paths |-> << >>]

\* a hostname() that leaves the namespace mask alone
WithHostnameOnly(c, h) == [c EXCEPT !.hostname = Some(h)]

WithHostname(c, h) ==
    [c EXCEPT !.hostname = Some(h), !.namespaces = @ \cup {"CLONE_NEWUTS"}]

WithCgroup(c, cg) ==
    [c EXCEPT !.cgroup = Some(cg), !.namespaces = @ \cup {"CLONE_NEWCGROUP"}]

WithMemoryMax(c, m) == [c EXCEPT !.mem_max = Some(m)]

\* a job directory that was never created; one just created: memory.max
\* of a new cgroup reads "max", no cap
NoDir == [exists |-> FALSE, memory_max |-> None]
NewDir == [exists |-> TRUE, memory_max |-> None]

NoSandbox == [spawned |-> FALSE, cgroup |-> None, mem_max |-> None]

CmdIdle ==
    /\ cmd = FromCommand
    /\ called = {}
    /\ cgfs = [cg \in CgNames |-> NoDir]
    /\ sandbox = NoSandbox

\* ------------------------------------------------------ CheckReadiness
\* A path is the sequence of its components, "/" first if it is absolute
BuildDir == <<"/", "b">>
ReadyPaths == {<< >>, <<"x">>, <<"y">>, <<"/", "e">>}

IsAbsolute(p) == Len(p) > 0 /\ p[1] = "/"

\* PathBuf::join: an absolute argument replaces the base
Join(base, p) == IF IsAbsolute(p) THEN p ELSE base \o p

\* the paths another component may create or remove
FsPaths == {Join(BuildDir, p) : p \in ReadyPaths} \cup {BuildDir \o <<"e">>}

ReadyOk == [tag |-> "ok", code |-> "none", message |-> "none"]
NotReady == [tag |-> "err", code |-> "INTERNAL", message |-> "not ready"]
NoProbe == [path |-> << >>, reply |-> [tag |-> "none", code |-> "none",
                                       message |-> "none"]]

ReadyIdle ==
    /\ fs = {}
    /\ probe = NoProbe

\* ------------------------------------------------------ PID-1, stepwise
\* steps 1-9 of child_pid1, by the call each makes
SetupSteps ==
    <<"setpgid", "reset_signals", "gate", "chdir", "mount_private",
      "hostname", "proc_mount", "remount", "loopback">>

\* MntEntWrapper::from: the mount options that become mount(2) flags
OptFlag ==
    [nosuid |-> "MS_NOSUID", nodev |-> "MS_NODEV", noexec |-> "MS_NOEXEC",
     noatime |-> "MS_NOATIME", nodiratime |-> "MS_NODIRATIME",
     relatime |-> "MS_RELATIME"]

MntFlags(opts) == {OptFlag[o] : o \in opts \cap DOMAIN OptFlag}

\* a remount that passes only the three remount flags
RemountFlagsBare(flags) == {"MS_REMOUNT", "MS_BIND", "MS_RDONLY"}

\* remount_all_readonly, line 311
RemountFlags(flags) == flags \cup {"MS_REMOUNT", "MS_BIND", "MS_RDONLY"}

\* a mount-table entry: its mount point (by character), its options, the
\* flags of the remount issued for it (None: no remount issued), what the
\* remount did, and the errno of the remount if it failed
Entry(dir, opts) ==
    [dir |-> dir, opts |-> opts, issued |-> None, res |-> "none",
     err |-> None]

\* the mounts PID-1 inherits: "/", "/b", "/b2"
HostMounts ==
    << Entry(<<"/">>, {"rw", "relatime"}),
       Entry(<<"/", "b">>, {"rw", "nosuid"}),
       Entry(<<"/", "b", "2">>, {"ro", "nodev", "noatime"}) >>
ProcMount ==
    Entry(<<"/", "p", "r", "o", "c">>, {"rw", "nosuid", "nodev", "noexec"})

SkippedErrnos == {"EACCES", "EPERM", "EINVAL", "ENOENT", "ESTALE", "ENODEV"}
OtherErrnos == {"EBUSY"}

Pid1Idle ==
    /\ p1pc = "setpgid"
    /\ p1done = << >>
    /\ p1failed = {}
    /\ p1gate = FALSE
    /\ p1host = None
    /\ p1rw = << >>
    /\ mtab = HostMounts
    /\ ridx = 1
    /\ p1target = FALSE
    /\ p1exit = NoStatus

\* ------------------------------------------------------ reset_signals
\* Signal::iterator(), in signal-number order (a selection)
SignalList ==
    <<"SIGINT", "SIGKILL", "SIGTERM", "SIGCHLD", "SIGSTOP", "SIGTTIN",
      "SIGTTOU">>
Signals == Range(SignalList)
Unhandleable == {"SIGKILL", "SIGSTOP"}
TtySignals == {"SIGTTIN", "SIGTTOU"}

\* the handler of the two SigAction values reset_signals builds: both are
\* made with SigHandler::SigDfl
sadfl == "default"
saign == "default"

SigIdle ==
    /\ sigpc = "prctl"
    /\ disp = [sg \in Signals |-> "default"]
    /\ sigmask = {}
    /\ pdeathsig = None
    /\ signext = 1

\* ------------------------------------------------------ wait_child, timed
WaitInterval == 5    \* WAIT_INTERVAL, in seconds

\* wait_child after signal() and interval(): the first tick is due at once
WaitIdle ==
    /\ wpc = "select"
    /\ wp1 = "live"
    /\ chld = FALSE
    /\ untilTick = 0
    /\ sinceExit = 0
    /\ wtoken = FALSE
    /\ wkill_sent = FALSE
    /\ wres = "none"

\* ------------------------------------------------------ StackMap
\* usize and the page size, scaled: sizes count KiB, a page is 4 KiB and a
\* usize has 6 bits, so that sums wrap within the sizes tried
PageSize == 4
UsizeBits == 6
UsizeMod == 2 ^ UsizeBits

\* clone_pid1's argument, 1024 KiB, scaled to the same range
Pid1Stack == 16

NoStack ==
    [tag |-> "none", errno |-> "none", stack_size |-> 0, mmap_size |-> 0,
     guard |-> 0, rw |-> 0]

StackIdle ==
    /\ stack_size = Pid1Stack
    /\ stack = NoStack

\* ------------------------------------------------ resource usage
\* A 64-bit integer is four limbs of 16 bits, the least significant first;
\* exact results are kept in six
Base == 65536
WordLimbs == 4
WideLimbs == 6

Word(n) == <<n % Base, n \div Base, 0, 0>>
Limb(x, i) == IF i <= Len(x) THEN x[i] ELSE 0
Trunc(x, n) == [i \in 1..n |-> Limb(x, i)]

\* x * k and x + y in n limbs, the carry out of the last limb dropped
MulSmall(x, k, n) ==
    LET carry[i \in 0..n] ==
            IF i = 0 THEN 0 ELSE (Limb(x, i) * k + carry[i - 1]) \div Base
    IN  [i \in 1..n |-> (Limb(x, i) * k + carry[i - 1]) % Base]

AddWide(x, y, n) ==
    LET carry[i \in 0..n] ==
            IF i = 0 THEN 0
            ELSE (Limb(x, i) + Limb(y, i) + carry[i - 1]) \div Base
    IN  [i \in 1..n |-> (Limb(x, i) + Limb(y, i) + carry[i - 1]) % Base]

\* quotient and remainder of x by k
DivSmall(x, k) ==
    LET n == Len(x)
        rem[i \in 1..(n + 1)] ==
            IF i = n + 1 THEN 0 ELSE (rem[i + 1] * Base + x[i]) % k
    IN  [q |-> [i \in 1..n |-> (rem[i + 1] * Base + x[i]) \div k],
         r |-> rem[1]]

FitsU64(x) == \A i \in (WordLimbs + 1)..Len(x) : x[i] = 0
FitsI64(x) == FitsU64(x) /\ Limb(x, WordLimbs) < Base \div 2

RssMultiplier == 1024

\* the kernel's figure passed on as it is
MaxrssKb(ru_maxrss) == {[tag |-> "ok", v |-> ru_maxrss]}

\* (rusage.ru_maxrss as u64) * RSS_MULTIPLIER, line 474: a product beyond
\* u64 panics with overflow checks and wraps without
Maxrss(ru_maxrss) ==
    LET exact == MulSmall(ru_maxrss, RssMultiplier, WideLimbs)
    IN  {[tag |-> "ok", v |-> Trunc(exact, WordLimbs)]}
        \cup (IF FitsU64(exact) THEN {} ELSE {[tag |-> "panic", v |-> Word(0)]})

\* Duration::from_micros: whole seconds and nanoseconds below one second
FromMicros(v) ==
    LET d1 == DivSmall(v, 1000)
        d2 == DivSmall(d1.q, 1000)
    IN  [secs |-> d2.q, nanos |-> (d2.r * 1000 + d1.r) * 1000]

\* timeval_to_duration, lines 452-456: the product by 1,000,000 is taken
\* as two by 1,000; a sum beyond i64 panics with overflow checks and wraps
\* without; the cast to u64 keeps the bits
TimevalToDuration(val) ==
    LET exact == AddWide(MulSmall(MulSmall(val.tv_sec, 1000, WideLimbs),
                                  1000, WideLimbs),
                         val.tv_usec, WideLimbs)
    IN  {[tag |-> "ok", v |-> FromMicros(Trunc(exact, WordLimbs))]}
        \cup (IF FitsI64(exact) THEN {}
              ELSE {[tag |-> "panic", v |-> FromMicros(Word(0))]})

\* prost_types::Duration::try_from, resource.rs lines 37-43: the seconds
\* have to fit an i64, the field is left unset if they do not
PbDuration(d) ==
    IF FitsI64(d.secs) THEN Some([seconds |-> d.secs, nanos |-> d.nanos])
    ELSE None

\* i64::try_from(val.maxrss), resource.rs lines 45-47: 0 if it does not fit
PbMaxRss(v) == IF FitsI64(v) THEN v ELSE Word(0)

\* What wait4 can fill in. The kernel accounts CPU time in nanoseconds in
\* 64 bits, so tv_sec is at most 18446744073 and tv_usec below 1,000,000;
\* a resident set lies within an address space of less than 2^63 bytes,
\* so ru_maxrss is below 2^53 KiB.
RssSamples ==
    {Word(0), Word(1), Word(1023), Word(1048576), <<5, 0, 1, 0>>,
     <<65532, 65535, 16383, 0>>, <<65535, 65535, 65535, 31>>}
SecSamples == {Word(0), Word(1), <<0, 32768, 0, 0>>, <<64009, 19330, 4, 0>>}
UsecSamples == {Word(0), Word(1), Word(999999)}
Timevals == [tv_sec : SecSamples, tv_usec : UsecSamples]

NoRusage ==
    [ru_maxrss |-> Word(0),
     ru_utime |-> [tv_sec |-> Word(0), tv_usec |-> Word(0)],
     ru_stime |-> [tv_sec |-> Word(0), tv_usec |-> Word(0)]]
NoUsage ==
    [tag |-> "none", utime |-> FromMicros(Word(0)),
     stime |-> FromMicros(Word(0)), maxrss |-> Word(0)]
NoPbres ==
    [tag |-> "none", user_time |-> None, system_time |-> None,
     maximum_resident_set_size |-> Word(0)]

UsageIdle ==
    /\ rusage = NoRusage
    /\ usage = NoUsage
    /\ pbres = NoPbres

ExtIdle == SigIdle /\ WaitIdle /\ StackIdle /\ UsageIdle

Init == SvcInit /\ CmdIdle /\ ReadyIdle /\ Pid1Idle /\ ExtIdle

\* ------------------------------------------------------ ProcessorQueue
\* a take_cpu that reads the head without removing it
PopFrontKeep(q) == q

\* take_cpu: q.pop_front()
PopFront(q) == Tail(q)

\* a give_cpu that puts the id at the head
PushFront(q, cpu) == <<cpu>> \o q

\* give_cpu: q.push_back(cpu)
PushBack(q, cpu) == Append(q, cpu)

\* ------------------------------------------------------------ the handler
\* Run, lines 91-117: the token and its drop guard are created and the
\* detached task is spawned; the handler then awaits the JoinHandle.
RunArrive(r) ==
    /\ hpc[r] = "idle"
    /\ hpc' = [hpc EXCEPT ![r] = "awaiting"]
    /\ tpc' = [tpc EXCEPT ![r] = "take"]
    /\ UNCHANGED <<aux, numCpus, queue, token, processor, given, kill_sent,
                   exit_resuse, reply, proc, pipe, written, kills>>

\* Run, lines 119-140: the reply assembled from the task's output
AssembleReply(res) ==
    IF res.tag = "panic" THEN ErrReply("INTERNAL")
    ELSE IF res.tag = "err" THEN OkReply(InternalExit, FALSE)
    ELSE IF res.status.kind = "exited" THEN OkReply(res.status.v, TRUE)
    ELSE ErrReply("INTERNAL")

\* The awaited task has finished: Run returns; the drop guard goes out of
\* scope and cancels the token.
HandlerReply(r) ==
    /\ hpc[r] = "awaiting"
    /\ tpc[r] = "done"
    /\ hpc' = [hpc EXCEPT ![r] = "replied"]
    /\ reply' = [reply EXCEPT ![r] = AssembleReply(exit_resuse[r])]
    /\ token' = [token EXCEPT ![r] = TRUE]
    /\ UNCHANGED <<aux, numCpus, queue, tpc, processor, given, kill_sent,
                   exit_resuse, proc, pipe, written, kills>>

\* The transport drops the handler future (client cancellation): the drop
\* guard cancels the token, the JoinHandle is dropped, the task is detached.
HandlerDrop(r) ==
    /\ hpc[r] = "awaiting"
    /\ hpc' = [hpc EXCEPT ![r] = "dropped"]
    /\ token' = [token EXCEPT ![r] = TRUE]
    /\ UNCHANGED <<aux, numCpus, queue, tpc, processor, given, kill_sent,
                   exit_resuse, reply, proc, pipe, written, kills>>

\* ------------------------------------------------------ the detached task
\* The task returns v: its locals are dropped, the JoinHandle is ready.
Finish(r, v) ==
    /\ tpc' = [tpc EXCEPT ![r] = "done"]
    /\ exit_resuse' = [exit_resuse EXCEPT ![r] = v]

\* procque.take_cpu().await?
TaskTake(r) ==
    /\ tpc[r] = "take"
    /\ IF queue = << >>
         THEN /\ Finish(r, ErrResult("RESOURCE_EXHAUSTED"))
              /\ UNCHANGED <<queue, processor>>
         ELSE /\ processor' = [processor EXCEPT ![r] = Head(queue)]
              /\ queue' = PopFront(queue)
              /\ tpc' = [tpc EXCEPT ![r] = "stage"]
              /\ UNCHANGED exit_resuse
    /\ UNCHANGED <<aux, numCpus, hpc, token, given, kill_sent, reply, proc,
                   pipe, written, kills>>

\* spawn_child up to (not including) c.spawn(): arguments[0] is indexed
\* (a panic on an empty list), then tmp and home are created, then the
\* stdout and stderr files; any failure returns INTERNAL through `?`.
StageFailures == {"tmpdir", "homedir", "stdout", "stderr"}

TaskStage(r) ==
    /\ tpc[r] = "stage"
    /\ \E argsEmpty \in BOOLEAN, outcome \in StageFailures \cup {"ok"} :
         IF argsEmpty
           THEN Finish(r, PanicResult)
           ELSE IF outcome = "ok"
             THEN /\ tpc' = [tpc EXCEPT ![r] = "clone"]
                  /\ UNCHANGED exit_resuse
             ELSE Finish(r, ErrResult("INTERNAL"))
    /\ UNCHANGED <<aux, numCpus, queue, hpc, token, processor, given, kill_sent,
                   reply, proc, pipe, written, kills>>

\* Command::spawn: what the parent writes after clone, in program order.
\* "cgroup.procs" stands for move_child_cgroup up to the write of the pid
\* (the lazy mkdir included), "cgroup.limits" for the writes that follow
\* (cpuset.cpus, memory.swap.max, memory.oom.group, memory.peak,
\* memory.max), "gate" for the one byte written to the pipe.
SpawnOrderGateEarly ==
    <<"uid_map", "setgroups", "gid_map", "gate", "cgroup.procs", "cgroup.limits">>

\* a spawn that writes gid_map before setgroups
SpawnOrderGidFirst ==
    <<"uid_map", "gid_map", "setgroups", "cgroup.procs", "cgroup.limits", "gate">>

SpawnOrder ==
    <<"uid_map", "setgroups", "gid_map", "cgroup.procs", "cgroup.limits", "gate">>

\* write_uid_map and write_gid_map: what is written to each /proc file
MapContents ==
    [uid_map |-> <<"0", "outer_uid", "1">>,
     setgroups |-> <<"deny">>,
     gid_map |-> <<"0", "outer_gid", "1">>]

StepAfter(f) ==
    LET i == CHOOSE k \in 1..Len(SpawnOrder) : SpawnOrder[k] = f
    IN IF i = Len(SpawnOrder) THEN "wait_init" ELSE SpawnOrder[i + 1]

\* Command::spawn, lines 93-105: pipe2, the stack, clone. On success the
\* PID-1 exists and, its descriptor table being a copy of the parent's,
\* holds both ends of the pipe. clone_pid1 drops its StackMap on return:
\* a failing munmap panics (mmaps.rs 34-41), with PID-1 already cloned.
SpawnClone(r) ==
    /\ tpc[r] = "clone"
    /\ \/ /\ Finish(r, ErrResult("INTERNAL"))
          /\ UNCHANGED <<proc, pipe>>
       \/ /\ Finish(r, PanicResult)
          /\ proc' = [proc EXCEPT ![r] = [NoProc EXCEPT !.st = "cloned"]]
          /\ pipe' = [pipe EXCEPT ![r] = [byte |-> FALSE, wends |-> {"pid1"}]]
       \/ /\ proc' = [proc EXCEPT ![r] = [NoProc EXCEPT !.st = "cloned"]]
          /\ pipe' = [pipe EXCEPT ![r] = [byte |-> FALSE, wends |-> {"parent", "pid1"}]]
          /\ tpc' = [tpc EXCEPT ![r] = SpawnOrder[1]]
          /\ UNCHANGED exit_resuse
    /\ UNCHANGED <<aux, numCpus, queue, hpc, token, processor, given, kill_sent,
                   reply, written, kills>>

\* Command::spawn, lines 107-115: one write of SpawnOrder. A failing write
\* returns through `?`: spawn's locals (the write end included) are
\* dropped and spawn_child maps the error to INTERNAL.
SpawnWrite(r) ==
    /\ tpc[r] \in Range(SpawnOrder)
    /\ \/ /\ written' = [written EXCEPT ![r] = Append(@, tpc[r])]
          /\ pipe' = [pipe EXCEPT ![r] =
                        IF tpc[r] = "gate"
                          THEN [byte |-> TRUE, wends |-> @.wends \ {"parent"}]
                          ELSE @]
          /\ tpc' = [tpc EXCEPT ![r] = StepAfter(tpc[r])]
          /\ UNCHANGED exit_resuse
       \/ /\ Finish(r, ErrResult("INTERNAL"))
          /\ pipe' = [pipe EXCEPT ![r].wends = @ \ {"parent"}]
          /\ UNCHANGED written
    /\ UNCHANGED <<aux, numCpus, queue, hpc, token, processor, given, kill_sent,
                   reply, proc, kills>>

\* -------------------------------------------------------------- the waiter
\* wait_child, line 44: signal(SignalKind::child())?
WaitInit(r) ==
    /\ tpc[r] = "wait_init"
    /\ \/ /\ tpc' = [tpc EXCEPT ![r] = "select"]
          /\ UNCHANGED exit_resuse
       \/ /\ tpc' = [tpc EXCEPT ![r] = "give"]
          /\ exit_resuse' = [exit_resuse EXCEPT ![r] = ErrResult("INTERNAL")]
    /\ UNCHANGED <<aux, numCpus, queue, hpc, token, processor, given, kill_sent,
                   reply, proc, pipe, written, kills>>

\* a waiter that forgets that it has sent the kill
KillSentNever(old, ok) == old

\* wait_child, lines 60-62: kill_sent after child.kill() returned ok
KillSentAfter(old, ok) == IF ok THEN TRUE ELSE old

\* Child::kill delivered by the kernel: SIGKILL becomes pending on PID-1
Deliver(p) == [p EXCEPT !.pendingKill = TRUE]

\* wait_child, lines 51-64: the select!. SIGCHLD and the interval tick
\* only wake the loop up; the cancelled branch is guarded by !kill_sent.
WaitSelect(r) ==
    /\ tpc[r] = "select"
    /\ \/ UNCHANGED <<kill_sent, proc, kills>>
       \/ /\ token[r]
          /\ ~kill_sent[r]
          /\ \E ok \in BOOLEAN :
               /\ kill_sent' = [kill_sent EXCEPT ![r] = KillSentAfter(@, ok)]
               /\ proc' = [proc EXCEPT ![r] = IF ok THEN Deliver(@) ELSE @]
               /\ kills' = [kills EXCEPT ![r] = IF ok THEN @ + 1 ELSE @]
    /\ tpc' = [tpc EXCEPT ![r] = "poll"]
    /\ UNCHANGED <<aux, numCpus, queue, hpc, token, processor, given,
                   exit_resuse, reply, pipe, written>>

\* the waiter going round its loop once more
AfterReapLoop == "select"

\* wait_child, line 74: Ok(Some(e)) => return Ok(e), the loop is left
AfterReap == "give"

\* wait_child, lines 72-83, and wait4 with WNOHANG (child.rs 458-480):
\* a zombie is reaped and its status returned, a live PID-1 gives
\* Ok(None), and an error of the syscall reaps nothing and ends the loop.
WaitPoll(r) ==
    /\ tpc[r] = "poll"
    /\ \/ /\ proc[r].st = "zombie"
          /\ proc' = [proc EXCEPT ![r].st = "reaped"]
          /\ exit_resuse' = [exit_resuse EXCEPT ![r] = OkResult(proc[r].status)]
          /\ tpc' = [tpc EXCEPT ![r] = AfterReap]
       \/ /\ proc[r].st # "zombie"
          /\ tpc' = [tpc EXCEPT ![r] = "select"]
          /\ UNCHANGED <<proc, exit_resuse>>
       \/ /\ tpc' = [tpc EXCEPT ![r] = "give"]
          /\ exit_resuse' = [exit_resuse EXCEPT ![r] = ErrResult("INTERNAL")]
          /\ UNCHANGED proc
    /\ UNCHANGED <<aux, numCpus, queue, hpc, token, processor, given, kill_sent,
                   reply, pipe, written, kills>>

\* Run, lines 115-116: procque.give_cpu(processor).await; exit_resuse
TaskGive(r) ==
    /\ tpc[r] = "give"
    /\ queue' = PushBack(queue, processor[r])
    /\ given' = [given EXCEPT ![r] = TRUE]
    /\ tpc' = [tpc EXCEPT ![r] = "done"]
    /\ UNCHANGED <<aux, numCpus, hpc, token, processor, kill_sent, exit_resuse,
                   reply, proc, pipe, written, kills>>

\* ------------------------------------------------------------------ PID-1
Live(p) == p.st \in {"cloned", "gate", "setup", "running"}

\* PID-1 terminates with status st: it becomes a zombie and the kernel
\* closes its descriptors.
Die(r, st) ==
    /\ proc' = [proc EXCEPT ![r].st = "zombie", ![r].status = st]
    /\ pipe' = [pipe EXCEPT ![r].wends = @ \ {"pid1"}]

\* clone_pid1, line 427: an Err of child_pid1 becomes -1, exit code 255
SetupFailed(r) == Die(r, Exited(ExitByte(Pid1Err)))

\* child_pid1, lines 353-355: setpgid and reset_signals
P1Start(r) ==
    /\ proc[r].st = "cloned"
    /\ \/ /\ proc' = [proc EXCEPT ![r].st = "gate"]
          /\ UNCHANGED pipe
       \/ SetupFailed(r)
    /\ UNCHANGED <<aux, numCpus, queue, hpc, tpc, token, processor, given,
                   kill_sent, exit_resuse, reply, written, kills>>

\* a read that sees end-of-file as soon as the parent's write end is gone
GateReadableParentEnd(p) == p.byte \/ "parent" \notin p.wends

\* read(2) on the pipe returns once a byte is there, or with end-of-file
\* once no write end is open any more
GateReadable(p) == p.byte \/ p.wends = {}

\* child_pid1, lines 360-362: the blocking read of the start gate
P1Gate(r) ==
    /\ proc[r].st = "gate"
    /\ GateReadable(pipe[r])
    /\ proc' = [proc EXCEPT ![r].st = "setup", ![r].gated = TRUE]
    /\ UNCHANGED <<aux, numCpus, queue, hpc, tpc, token, processor, given,
                   kill_sent, exit_resuse, reply, pipe, written, kills>>

\* child_pid1, lines 365-406: chdir, the mounts, the read-only pass,
\* loopback, stdio, close_range and the spawn of the target command;
\* the first failing step ends PID-1 with exit code 255.
P1Setup(r) ==
    /\ proc[r].st = "setup"
    /\ \/ /\ proc' = [proc EXCEPT ![r].st = "running", ![r].execd = TRUE]
          /\ pipe' = [pipe EXCEPT ![r].wends = @ \ {"pid1"}]
       \/ SetupFailed(r)
    /\ UNCHANGED <<aux, numCpus, queue, hpc, tpc, token, processor, given,
                   kill_sent, exit_resuse, reply, written, kills>>

\* child_pid1, lines 407-416, with target status ts: a normal exit code is
\* returned; after a signal death PID-1 raises the signal against itself,
\* which the kernel does not deliver to the init of a PID namespace (no
\* handler is installed), and then fails on code() being None.
\* A PID-1 that discards its target's exit code
Pid1StatusZero(ts) == Exited(0)

\* child_pid1, lines 407-416, under clone_pid1's unwrap_or(-1), line 427.
\* A target that exited with c makes PID-1 return c. A target killed by S
\* makes PID-1 raise S against itself: PID-1 is the init of its PID
\* namespace and reset_signals left S at its default disposition, so the
\* kernel discards the signal; code() is then None, child_pid1 returns Err
\* and the clone callback returns -1.
Pid1Status(ts) ==
    IF ts.kind = "exited" THEN Exited(ExitByte(ts.v)) ELSE Exited(ExitByte(Pid1Err))

TargetStatuses ==
    {Exited(c) : c \in ExitCodes} \cup {Signaled(s) : s \in TargetSignals}

\* PID-1 ends with status st after its target ended with status ts
DieAfter(r, ts, st) ==
    /\ proc' = [proc EXCEPT ![r].st = "zombie", ![r].status = st,
                             ![r].target = ts]
    /\ pipe' = [pipe EXCEPT ![r].wends = @ \ {"pid1"}]

P1TargetExit(r) ==
    /\ proc[r].st = "running"
    /\ \E ts \in TargetStatuses : DieAfter(r, ts, Pid1Status(ts))
    /\ UNCHANGED <<aux, numCpus, queue, hpc, tpc, token, processor, given,
                   kill_sent, exit_resuse, reply, written, kills>>

\* The kernel acts on the pending SIGKILL
P1Killed(r) ==
    /\ Live(proc[r])
    /\ proc[r].pendingKill
    /\ Die(r, Signaled(SIGKILL))
    /\ UNCHANGED <<aux, numCpus, queue, hpc, tpc, token, processor, given,
                   kill_sent, exit_resuse, reply, written, kills>>

\* move_child_cgroup_v2, lines 202-207: memory.oom.group is 1 and
\* memory.max is the cap, so a target that outgrows the cap has the whole
\* cgroup, PID-1 included, killed by the kernel's OOM killer.
P1OomKilled(r) ==
    /\ proc[r].st = "running"
    /\ "cgroup.limits" \in Range(written[r])
    /\ DieAfter(r, Signaled(SIGKILL), Signaled(SIGKILL))
    /\ UNCHANGED <<aux, numCpus, queue, hpc, tpc, token, processor, given,
                   kill_sent, exit_resuse, reply, written, kills>>

\* ---------------------------------------------------------- specification
Next ==
    \E r \in Reqs :
        \/ RunArrive(r)
        \/ HandlerReply(r)
        \/ HandlerDrop(r)
        \/ TaskTake(r)
        \/ TaskStage(r)
        \/ SpawnClone(r)
        \/ SpawnWrite(r)
        \/ WaitInit(r)
        \/ WaitSelect(r)
        \/ WaitPoll(r)
        \/ TaskGive(r)
        \/ P1Start(r)
        \/ P1Gate(r)
        \/ P1Setup(r)
        \/ P1TargetExit(r)
        \/ P1Killed(r)
        \/ P1OomKilled(r)

Spec == Init /\ [][Next]_vars

\* ------------------------------------------------------------- properties
Slots == 0..(numCpus - 1)

\* the request's task has taken a slot and has not finished
Holds(r) == processor[r] # NoCpu /\ tpc[r] # "done"

InUse == {processor[r] : r \in {x \in Reqs : Holds(x)}}

InQueue(c) == \E i \in 1..Len(queue) : queue[i] = c

Unreaped(r) == proc[r].st \notin {"none", "reaped"}

\* the parent has written PID-1's pid into cgroup.procs of job<processor>
InCgroup(r) == "cgroup.procs" \in Range(written[r])

\* the per-job cgroup of the request's sandbox: job<processor>
JobCgroup(r) == processor[r]

\* f was written before g (and both were written)
WrittenBefore(r, f, g) ==
    \E i, j \in 1..Len(written[r]) :
        i < j /\ written[r][i] = f /\ written[r][j] = g

\* spawn returned an error after clone had created PID-1
SpawnFailedAfterClone(r) ==
    tpc[r] = "done" /\ proc[r].st # "none" /\ ~given[r]

\* C1: slot conservation: every CPU id is either once in the queue or held
\* by exactly one in-flight request, so |queue| + |in use| = num_cpus.
C1_SlotConservation ==
    /\ \A c \in Slots :
         Cardinality({i \in 1..Len(queue) : queue[i] = c})
           + Cardinality({r \in Reqs : Holds(r) /\ processor[r] = c}) = 1
    /\ Len(queue) + Cardinality(InUse) = numCpus

\* C2: a request that took a slot has given it back by the time its Run
\* response is produced, on every path.
C2_SlotGivenBeforeResponse ==
    \A r \in Reqs :
        (hpc[r] = "replied" /\ processor[r] # NoCpu) => given[r]

\* C3: no slot is back in the queue while the PID-1 that was started under
\* it is still unreaped.
C3_ReapBeforeRelease ==
    \A r \in Reqs :
        (processor[r] # NoCpu /\ InQueue(processor[r]) /\ given[r])
            => ~Unreaped(r)

C5_ExhaustedPropagates ==
    \A r \in Reqs :
        (hpc[r] = "replied" /\ exit_resuse[r] = ErrResult("RESOURCE_EXHAUSTED"))
            => reply[r] = ErrReply("RESOURCE_EXHAUSTED")

\* C6: a PID-1 that is past its start gate (and so any that does mount
\* setup or has started the target) found the parent's byte in the pipe,
\* and the parent wrote uid_map, setgroups, gid_map and cgroup.procs before
\* that byte.
C6_StartGate ==
    \A r \in Reqs :
        (proc[r].gated \/ proc[r].execd \/ proc[r].st \in {"setup", "running"})
            => /\ pipe[r].byte
               /\ \A f \in {"uid_map", "setgroups", "gid_map", "cgroup.procs"} :
                    WrittenBefore(r, f, "gate")

C6_Witness == \E r \in Reqs : proc[r].execd /\ proc[r].st = "running"

\* C7: when spawn fails after clone, PID-1 has been killed and reaped by
\* the time spawn has returned its error.
C7_SpawnFailureReaps ==
    \A r \in Reqs :
        SpawnFailedAfterClone(r)
            => proc[r].st = "reaped" /\ exit_resuse[r].tag = "err"

C9_NoOrphans ==
    \A r \in Reqs : tpc[r] = "done" => ~Unreaped(r)

\* C10: for a request whose handler was dropped, the detached task ends
\* with PID-1 reaped and the slot back in the queue (nothing reaps PID-1 or
\* gives the slot back after the task has finished), and no reply is sent.
C10_CancelCleansUp ==
    \A r \in Reqs :
        (hpc[r] = "dropped" /\ tpc[r] = "done")
            => /\ ~Unreaped(r)
               /\ processor[r] # NoCpu => given[r]
               /\ reply[r] = NoReply

\* ------------------------------------- specification of the builder
Unwrap(o) == CHOOSE x \in o : TRUE

\* sequences over S of length at most n
SeqsUpTo(S, n) == UNION {[1..k -> S] : k \in 0..n}

Called(name) == called' = called \cup {name}

CmdNew ==
    /\ cmd' = FromCommand
    /\ called' = {}
    /\ UNCHANGED <<svcvars, extvars, readyvars, pid1vars, cgfs, sandbox>>

CmdStdout ==
    /\ cmd' = [cmd EXCEPT !.stdout = Some("file")]
    /\ Called("stdout")
    /\ UNCHANGED <<svcvars, extvars, readyvars, pid1vars, cgfs, sandbox>>

CmdStderr ==
    /\ cmd' = [cmd EXCEPT !.stderr = Some("file")]
    /\ Called("stderr")
    /\ UNCHANGED <<svcvars, extvars, readyvars, pid1vars, cgfs, sandbox>>

CmdHostname ==
    /\ \E h \in Hostnames : cmd' = WithHostname(cmd, h)
    /\ Called("hostname")
    /\ UNCHANGED <<svcvars, extvars, readyvars, pid1vars, cgfs, sandbox>>

CmdCgroup ==
    /\ \E cg \in CgNames : cmd' = WithCgroup(cmd, cg)
    /\ Called("cgroup")
    /\ UNCHANGED <<svcvars, extvars, readyvars, pid1vars, cgfs, sandbox>>

CmdMemoryMax ==
    /\ \E m \in MemCaps : cmd' = WithMemoryMax(cmd, m)
    /\ Called("memory_max")
    /\ UNCHANGED <<svcvars, extvars, readyvars, pid1vars, cgfs, sandbox>>

CmdRwPath ==
    /\ Len(cmd.rw_paths) < MaxRw
    /\ \E p \in RwChoices : cmd' = [cmd EXCEPT !.rw_paths = Append(@, p)]
    /\ Called("rw_path")
    /\ UNCHANGED <<svcvars, extvars, readyvars, pid1vars, cgfs, sandbox>>

CmdRwPaths ==
    /\ \E ps \in SeqsUpTo(RwChoices, MaxRw) :
          /\ Len(cmd.rw_paths) + Len(ps) <= MaxRw
          /\ cmd' = [cmd EXCEPT !.rw_paths = @ \o ps]
    /\ Called("rw_paths")
    /\ UNCHANGED <<svcvars, extvars, readyvars, pid1vars, cgfs, sandbox>>

\* move_child_cgroup_v2: the directory is made if missing; memory.max is
\* written only for Some(m), and otherwise keeps what it held
MoveChildCgroupV2(dir, mem_max) ==
    [exists |-> TRUE,
     memory_max |-> IF mem_max # None THEN mem_max
                    ELSE IF dir.exists THEN dir.memory_max
                    ELSE NewDir.memory_max]

\* Command::spawn as far as the cgroup filesystem goes: with a cgroup
\* set, PID-1 is moved into job<cg>; a failing step fails the spawn
CmdSpawn ==
    /\ \/ /\ cmd.cgroup = None
          /\ sandbox' = [spawned |-> TRUE, cgroup |-> None,
                         mem_max |-> cmd.mem_max]
          /\ UNCHANGED cgfs
       \/ /\ cmd.cgroup # None
          /\ cgfs' = [cgfs EXCEPT ![Unwrap(cmd.cgroup)] =
                          MoveChildCgroupV2(@, cmd.mem_max)]
          /\ sandbox' = [spawned |-> TRUE, cgroup |-> cmd.cgroup,
                         mem_max |-> cmd.mem_max]
       \/ /\ sandbox' = NoSandbox
          /\ UNCHANGED cgfs
    /\ UNCHANGED <<svcvars, extvars, readyvars, pid1vars, cmd, called>>

NextCmd ==
    \/ CmdNew
    \/ CmdStdout
    \/ CmdStderr
    \/ CmdHostname
    \/ CmdCgroup
    \/ CmdMemoryMax
    \/ CmdRwPath
    \/ CmdRwPaths
    \/ CmdSpawn

SpecCmd == Init /\ [][NextCmd]_vars

\* ------------------------------- specification of the readiness probe
\* a probe that answers success whatever it found
ReadinessReplyAlways(found) == ReadyOk

\* check_readiness, lines 73-79
ReadinessReply(found) == IF found THEN ReadyOk ELSE NotReady

CheckReadiness(path) ==
    /\ probe' = [path |-> path,
                 reply |-> ReadinessReply(Join(BuildDir, path) \in fs)]
    /\ UNCHANGED <<svcvars, extvars, cmdvars, pid1vars, fs>>

\* the component that stages files creates and removes paths
FsCreate(p) ==
    /\ p \notin fs
    /\ fs' = fs \cup {p}
    /\ UNCHANGED <<svcvars, extvars, cmdvars, pid1vars, probe>>

FsRemove(p) ==
    /\ p \in fs
    /\ fs' = fs \ {p}
    /\ UNCHANGED <<svcvars, extvars, cmdvars, pid1vars, probe>>

NextReady ==
    \/ \E path \in ReadyPaths : CheckReadiness(path)
    \/ \E p \in FsPaths : FsCreate(p)
    \/ \E p \in FsPaths : FsRemove(p)

SpecReady == Init /\ [][NextReady]_vars

\* --------------------------------------- specification of one PID-1
\* PID-1 as Command::spawn made it: any writable paths, hostname or none
InitPid1 ==
    /\ SvcInit /\ CmdIdle /\ ReadyIdle /\ ExtIdle
    /\ p1pc = "setpgid"
    /\ p1done = << >>
    /\ p1failed = {}
    /\ p1gate = FALSE
    /\ p1host \in {None} \cup {Some(h) : h \in Hostnames}
    /\ p1rw \in SeqsUpTo(RwChoices, MaxRw)
    /\ mtab = HostMounts
    /\ ridx = 1
    /\ p1target = FALSE
    /\ p1exit = NoStatus

\* str::starts_with: x is a prefix of s, character by character
StartsWith(s, x) == Len(x) <= Len(s) /\ SubSeq(s, 1, Len(x)) = x

\* remount_all_readonly, line 297: the entry is left writable
LeftWritable(dir) == \E k \in 1..Len(p1rw) : StartsWith(dir, p1rw[k])

\* a remount pass that skips every errno
SkippableAny(e) == TRUE

\* a remount pass that skips no errno
SkippableNone(e) == FALSE

\* remount_all_readonly, lines 316-320: the errnos that are skipped
Skippable(e) == e \in SkippedErrnos

\* a step's syscall succeeded: on to the next step
StepOk(step, next) ==
    /\ p1pc' = next
    /\ p1done' = Append(p1done, step)
    /\ UNCHANGED <<p1failed, p1exit>>

\* a step's syscall failed and `?` returned the error: child_pid1 returns
\* Err, clone_pid1's unwrap_or(-1) makes PID-1 exit
StepErr(step) ==
    /\ p1pc' = "exited"
    /\ p1failed' = p1failed \cup {step}
    /\ p1exit' = Exited(ExitByte(Pid1Err))
    /\ UNCHANGED p1done

\* the parent's write of the gate byte, Command::spawn line 112
ParentGate ==
    /\ ~p1gate
    /\ p1gate' = TRUE
    /\ UNCHANGED <<svcvars, extvars, cmdvars, readyvars, p1pc, p1done, p1failed,
                   p1host, p1rw, mtab, ridx, p1target, p1exit>>

P1Setpgid ==
    /\ p1pc = "setpgid"
    /\ StepOk("setpgid", "reset_signals") \/ StepErr("setpgid")
    /\ UNCHANGED <<svcvars, extvars, cmdvars, readyvars, p1gate, p1host, p1rw, mtab,
                   ridx, p1target>>

\* prctl and sigprocmask are checked; the sigaction calls cannot fail for
\* the signals of Signal::iterator()
P1ResetSignals ==
    /\ p1pc = "reset_signals"
    /\ StepOk("reset_signals", "gate") \/ StepErr("reset_signals")
    /\ UNCHANGED <<svcvars, extvars, cmdvars, readyvars, p1gate, p1host, p1rw, mtab,
                   ridx, p1target>>

\* the read blocks until the byte is there
P1GateRead ==
    /\ p1pc = "gate"
    /\ p1gate
    /\ StepOk("gate", "chdir")
    /\ UNCHANGED <<svcvars, extvars, cmdvars, readyvars, p1gate, p1host, p1rw, mtab,
                   ridx, p1target>>

P1Chdir ==
    /\ p1pc = "chdir"
    /\ StepOk("chdir", "mount_private") \/ StepErr("chdir")
    /\ UNCHANGED <<svcvars, extvars, cmdvars, readyvars, p1gate, p1host, p1rw, mtab,
                   ridx, p1target>>

P1MountPrivate ==
    /\ p1pc = "mount_private"
    /\ StepOk("mount_private", "hostname") \/ StepErr("mount_private")
    /\ UNCHANGED <<svcvars, extvars, cmdvars, readyvars, p1gate, p1host, p1rw, mtab,
                   ridx, p1target>>

\* sethostname only for Some(h)
P1Hostname ==
    /\ p1pc = "hostname"
    /\ IF p1host = None
          THEN /\ p1pc' = "proc_mount"
               /\ UNCHANGED <<p1done, p1failed, p1exit>>
          ELSE StepOk("hostname", "proc_mount") \/ StepErr("hostname")
    /\ UNCHANGED <<svcvars, extvars, cmdvars, readyvars, p1gate, p1host, p1rw, mtab,
                   ridx, p1target>>

\* a fresh proc at /proc: one more entry in the mount table
P1ProcMount ==
    /\ p1pc = "proc_mount"
    /\ \/ /\ StepOk("proc_mount", "remount")
          /\ mtab' = Append(mtab, ProcMount)
       \/ /\ StepErr("proc_mount")
          /\ UNCHANGED mtab
    /\ UNCHANGED <<svcvars, extvars, cmdvars, readyvars, p1gate, p1host, p1rw, ridx,
                   p1target>>

\* remount_all_readonly, one entry of the loop
P1Remount ==
    /\ p1pc = "remount"
    /\ ridx <= Len(mtab)
    /\ \/ /\ LeftWritable(mtab[ridx].dir)
          /\ ridx' = ridx + 1
          /\ UNCHANGED <<mtab, p1pc, p1done, p1failed, p1exit>>
       \/ /\ ~LeftWritable(mtab[ridx].dir)
          /\ mtab' = [mtab EXCEPT
                         ![ridx].issued = Some(RemountFlags(MntFlags(mtab[ridx].opts))),
                         ![ridx].res = "ro"]
          /\ ridx' = ridx + 1
          /\ UNCHANGED <<p1pc, p1done, p1failed, p1exit>>
       \/ /\ ~LeftWritable(mtab[ridx].dir)
          /\ \E e \in SkippedErrnos \cup OtherErrnos :
                /\ mtab' = [mtab EXCEPT
                       ![ridx].issued = Some(RemountFlags(MntFlags(mtab[ridx].opts))),
                       ![ridx].err = Some(e)]
                /\ IF Skippable(e)
                      THEN /\ ridx' = ridx + 1
                           /\ UNCHANGED <<p1pc, p1done, p1failed, p1exit>>
                      ELSE /\ StepErr("remount")
                           /\ UNCHANGED ridx
    /\ UNCHANGED <<svcvars, extvars, cmdvars, readyvars, p1gate, p1host, p1rw,
                   p1target>>

\* remount_all_readonly: opening the table fails, or the loop is over
P1RemountEnd ==
    /\ p1pc = "remount"
    /\ \/ ridx = 1 /\ StepErr("remount")
       \/ ridx > Len(mtab) /\ StepOk("remount", "loopback")
    /\ UNCHANGED <<svcvars, extvars, cmdvars, readyvars, p1gate, p1host, p1rw, mtab,
                   ridx, p1target>>

\* net_loopback_up: socket() is checked with `?`; the value ioctl returns
\* is dropped and Ok(()) returned
P1Loopback ==
    /\ p1pc = "loopback"
    /\ \/ StepErr("loopback")
       \/ StepOk("loopback", "stdio")
       \/ /\ p1pc' = "stdio"
          /\ p1failed' = p1failed \cup {"loopback"}
          /\ UNCHANGED <<p1done, p1exit>>
    /\ UNCHANGED <<svcvars, extvars, cmdvars, readyvars, p1gate, p1host, p1rw, mtab,
                   ridx, p1target>>

\* dup2 over 1 and 2, close_range
P1Stdio ==
    /\ p1pc = "stdio"
    /\ \/ /\ p1pc' = "spawn"
          /\ UNCHANGED <<p1failed, p1exit>>
       \/ /\ p1pc' = "exited"
          /\ p1exit' = Exited(ExitByte(Pid1Err))
          /\ UNCHANGED p1failed
    /\ UNCHANGED <<svcvars, extvars, cmdvars, readyvars, p1done, p1gate, p1host,
                   p1rw, mtab, ridx, p1target>>

\* cmd.spawn()
P1SpawnTarget ==
    /\ p1pc = "spawn"
    /\ \/ /\ p1pc' = "wait"
          /\ p1target' = TRUE
          /\ UNCHANGED p1exit
       \/ /\ p1pc' = "exited"
          /\ p1exit' = Exited(ExitByte(Pid1Err))
          /\ UNCHANGED p1target
    /\ UNCHANGED <<svcvars, extvars, cmdvars, readyvars, p1done, p1failed, p1gate,
                   p1host, p1rw, mtab, ridx>>

\* child.wait() and the return of the target's code
P1Wait ==
    /\ p1pc = "wait"
    /\ p1pc' = "exited"
    /\ \E ts \in TargetStatuses : p1exit' = Pid1Status(ts)
    /\ UNCHANGED <<svcvars, extvars, cmdvars, readyvars, p1done, p1failed, p1gate,
                   p1host, p1rw, mtab, ridx, p1target>>

NextPid1 ==
    \/ ParentGate
    \/ P1Setpgid
    \/ P1ResetSignals
    \/ P1GateRead
    \/ P1Chdir
    \/ P1MountPrivate
    \/ P1Hostname
    \/ P1ProcMount
    \/ P1Remount
    \/ P1RemountEnd
    \/ P1Loopback
    \/ P1Stdio
    \/ P1SpawnTarget
    \/ P1Wait

SpecPid1 == InitPid1 /\ [][NextPid1]_vars

\* ------------------------------------ specification of reset_signals
\* what PID-1 inherits through clone: the server's dispositions and mask;
\* the parent-death signal of a new process is unset
InitSig ==
    /\ SvcInit /\ CmdIdle /\ ReadyIdle /\ Pid1Idle /\ WaitIdle /\ StackIdle
    /\ UsageIdle
    /\ sigpc = "prctl"
    /\ disp \in {f \in [Signals -> {"default", "ignore", "handler"}] :
                    \A sg \in Unhandleable : f[sg] = "default"}
    /\ sigmask \in SUBSET {"SIGCHLD", "SIGTERM"}
    /\ pdeathsig = None
    /\ signext = 1

\* a `?` in reset_signals returned the error
SigErr ==
    /\ sigpc' = "failed"
    /\ UNCHANGED <<disp, sigmask, pdeathsig, signext>>

\* prctl::set_pdeathsig(Signal::SIGKILL)?
SigPdeathsig ==
    /\ sigpc = "prctl"
    /\ \/ /\ pdeathsig' = Some("SIGKILL")
          /\ sigpc' = "sigprocmask"
          /\ UNCHANGED <<disp, sigmask, signext>>
       \/ SigErr
    /\ UNCHANGED <<svcvars, cmdvars, readyvars, pid1vars, waitvars, stkvars, usevars>>

\* sigprocmask(SIG_SETMASK, empty)?
SigProcmask ==
    /\ sigpc = "sigprocmask"
    /\ \/ /\ sigmask' = {}
          /\ sigpc' = "sigaction"
          /\ UNCHANGED <<disp, pdeathsig, signext>>
       \/ SigErr
    /\ UNCHANGED <<svcvars, cmdvars, readyvars, pid1vars, waitvars, stkvars, usevars>>

\* one turn of the loop over Signal::iterator(); the value sigaction
\* returns is dropped
SigAction ==
    /\ sigpc = "sigaction"
    /\ signext <= Len(SignalList)
    /\ LET sg == SignalList[signext] IN
          disp' = IF sg \in Unhandleable THEN disp
                  ELSE IF sg \in TtySignals THEN [disp EXCEPT ![sg] = saign]
                  ELSE [disp EXCEPT ![sg] = sadfl]
    /\ signext' = signext + 1
    /\ UNCHANGED <<svcvars, cmdvars, readyvars, pid1vars, waitvars, stkvars, usevars, sigpc, sigmask,
                   pdeathsig>>

\* Ok(()) after the loop
SigReturn ==
    /\ sigpc = "sigaction"
    /\ signext > Len(SignalList)
    /\ sigpc' = "done"
    /\ UNCHANGED <<svcvars, cmdvars, readyvars, pid1vars, waitvars, stkvars, usevars, disp, sigmask,
                   pdeathsig, signext>>

NextSig ==
    \/ SigPdeathsig
    \/ SigProcmask
    \/ SigAction
    \/ SigReturn

SpecSig == InitSig /\ [][NextSig]_vars

\* ---------------------------------- specification of the timed waiter
\* an interval that never becomes due
TickDueNever(u) == FALSE

\* interval.tick() is ready once its deadline has come
TickDue(u) == u = 0

\* token.cancelled(), if !kill_sent
CancelReady == wtoken /\ ~wkill_sent

\* some branch of the select! is ready
SelectReady == chld \/ TickDue(untilTick) \/ CancelReady

\* PID-1 ends (its target ended, its setup failed, or it was killed); the
\* kernel raises SIGCHLD, which the stream may not show as a new
\* notification (coalesced with one already taken, or missed)
WExit ==
    /\ wp1 = "live"
    /\ wp1' = "zombie"
    /\ \E seen \in BOOLEAN : chld' = (chld \/ seen)
    /\ UNCHANGED <<svcvars, cmdvars, readyvars, pid1vars, sigvars, stkvars, usevars, wpc,
                   untilTick, sinceExit, wtoken, wkill_sent, wres>>

\* another child of the server ends: SIGCHLD is process-wide
WOtherChild ==
    /\ ~chld
    /\ wpc # "returned"
    /\ chld' = TRUE
    /\ UNCHANGED <<svcvars, cmdvars, readyvars, pid1vars, sigvars, stkvars, usevars, wpc, wp1,
                   untilTick, sinceExit, wtoken, wkill_sent, wres>>

\* the handler is dropped or has replied: the drop guard cancels the token
WCancel ==
    /\ ~wtoken
    /\ wpc # "returned"
    /\ wtoken' = TRUE
    /\ UNCHANGED <<svcvars, cmdvars, readyvars, pid1vars, sigvars, stkvars, usevars, wpc, wp1,
                   chld, untilTick, sinceExit, wkill_sent, wres>>

\* the select!: one ready branch runs, then the loop goes to try_wait4
WSelect ==
    /\ wpc = "select"
    /\ \/ /\ chld
          /\ chld' = FALSE
          /\ UNCHANGED <<untilTick, wkill_sent>>
       \/ /\ TickDue(untilTick)
          /\ untilTick' = WaitInterval
          /\ UNCHANGED <<chld, wkill_sent>>
       \/ /\ CancelReady
          /\ \E ok \in BOOLEAN : wkill_sent' = KillSentAfter(wkill_sent, ok)
          /\ UNCHANGED <<chld, untilTick>>
    /\ wpc' = "poll"
    /\ UNCHANGED <<svcvars, cmdvars, readyvars, pid1vars, sigvars, stkvars, usevars, wp1,
                   sinceExit, wtoken, wres>>

\* child.try_wait4(): a zombie is reaped, a live PID-1 gives Ok(None), an
\* error of the syscall ends the loop
WPoll ==
    /\ wpc = "poll"
    /\ \/ /\ wp1 = "zombie"
          /\ wp1' = "reaped"
          /\ wres' = "ok"
          /\ wpc' = "returned"
       \/ /\ wp1 = "live"
          /\ wpc' = "select"
          /\ UNCHANGED <<wp1, wres>>
       \/ /\ wres' = "err"
          /\ wpc' = "returned"
          /\ UNCHANGED wp1
    /\ UNCHANGED <<svcvars, cmdvars, readyvars, pid1vars, sigvars, stkvars, usevars, chld,
                   untilTick, sinceExit, wtoken, wkill_sent>>

\* a second passes. The runtime polls a task whose select! has a ready
\* branch without delay, so time passes only while the waiter is blocked
\* or has returned.
WTime ==
    /\ \/ wpc = "select" /\ ~SelectReady
       \/ wpc = "returned" /\ wp1 = "zombie" /\ sinceExit <= WaitInterval
    /\ untilTick' = IF untilTick > 0 THEN untilTick - 1 ELSE 0
    /\ sinceExit' = IF wp1 = "zombie" /\ sinceExit <= WaitInterval
                       THEN sinceExit + 1 ELSE sinceExit
    /\ UNCHANGED <<svcvars, cmdvars, readyvars, pid1vars, sigvars, stkvars, usevars, wpc, wp1,
                   chld, wtoken, wkill_sent, wres>>

NextWait ==
    \/ WExit
    \/ WOtherChild
    \/ WCancel
    \/ WSelect
    \/ WPoll
    \/ WTime

InitWait ==
    /\ SvcInit /\ CmdIdle /\ ReadyIdle /\ Pid1Idle /\ SigIdle /\ StackIdle
    /\ UsageIdle
    /\ WaitIdle

\* the runtime runs a ready task, and time goes on
SpecWait ==
    /\ InitWait
    /\ [][NextWait]_vars
    /\ WF_vars(WSelect)
    /\ WF_vars(WPoll)
    /\ WF_vars(WTime)

\* --------------------------------------- specification of StackMap
InitStack ==
    /\ SvcInit /\ CmdIdle /\ ReadyIdle /\ Pid1Idle /\ SigIdle /\ WaitIdle
    /\ UsageIdle
    /\ stack_size \in 0..(UsizeMod - 1)
    /\ stack = NoStack

StackErr(e) == [NoStack EXCEPT !.tag = "err", !.errno = e]
StackPanic == [NoStack EXCEPT !.tag = "panic"]

\* StackMap::new, lines 44-66. The sum of line 50 overflows for the
\* largest multiples of the page size: a panic with overflow checks, a
\* wrap to 0 without, and NonZeroUsize::new(0) is then EINVAL. The mapping
\* is PROT_NONE throughout; mmap itself may fail.
StackNew ==
    /\ stack.tag = "none"
    /\ IF stack_size % PageSize # 0
         THEN stack' = StackErr("EINVAL")
         ELSE IF stack_size + PageSize >= UsizeMod
         THEN stack' \in
                {StackPanic,
                 IF (stack_size + PageSize) % UsizeMod = 0
                   THEN StackErr("EINVAL")
                   ELSE StackErr("ENOMEM")}
         ELSE stack' \in
                {StackErr("ENOMEM"),
                 [tag |-> "ok", errno |-> "none", stack_size |-> stack_size,
                  mmap_size |-> stack_size + PageSize,
                  guard |-> stack_size + PageSize, rw |-> 0]}
    /\ UNCHANGED <<svcvars, cmdvars, readyvars, pid1vars, sigvars, waitvars, usevars,
                   stack_size>>

\* StackMap::as_slice, lines 68-81: stack_size bytes above the first page
\* become readable and writable; the first page stays PROT_NONE
StackAsSlice ==
    /\ stack.tag = "ok"
    /\ stack.rw = 0
    /\ \/ stack' = [stack EXCEPT !.rw = stack.stack_size,
                                  !.guard = stack.mmap_size - stack.stack_size]
       \/ stack' = [stack EXCEPT !.errno = "ENOMEM"]
    /\ UNCHANGED <<svcvars, cmdvars, readyvars, pid1vars, sigvars, waitvars, usevars,
                   stack_size>>

\* Drop for StackMap, lines 34-41: munmap, a panic if it fails
StackDrop ==
    /\ stack.tag = "ok"
    /\ \/ stack' = [stack EXCEPT !.tag = "dropped"]
       \/ stack' = [stack EXCEPT !.tag = "panic"]
    /\ UNCHANGED <<svcvars, cmdvars, readyvars, pid1vars, sigvars, waitvars, usevars,
                   stack_size>>

NextStack ==
    \/ StackNew
    \/ StackAsSlice
    \/ StackDrop

SpecStack == InitStack /\ [][NextStack]_vars

\* --------------------------------- specification of resource usage
InitUsage ==
    /\ SvcInit /\ CmdIdle /\ ReadyIdle /\ Pid1Idle /\ SigIdle /\ WaitIdle
    /\ StackIdle
    /\ rusage \in [ru_maxrss : RssSamples, ru_utime : Timevals,
                    ru_stime : Timevals]
    /\ usage = NoUsage
    /\ pbres = NoPbres

\* wait4 with a status, child.rs lines 468-477
Wait4Usage ==
    /\ usage.tag = "none"
    /\ \E u \in TimevalToDuration(rusage.ru_utime),
          t \in TimevalToDuration(rusage.ru_stime),
          m \in Maxrss(rusage.ru_maxrss) :
          usage' = IF {u.tag, t.tag, m.tag} = {"ok"}
                     THEN [tag |-> "ok", utime |-> u.v, stime |-> t.v,
                           maxrss |-> m.v]
                     ELSE [NoUsage EXCEPT !.tag = "panic"]
    /\ UNCHANGED <<svcvars, cmdvars, readyvars, pid1vars, sigvars, waitvars,
                   stkvars, rusage, pbres>>

\* From<ResourceUsage> for PosixResourceUsage, resource.rs lines 35-51, as
\* the Run handler applies it to a reaped child's usage
UsageInto ==
    /\ usage.tag = "ok"
    /\ pbres.tag = "none"
    /\ pbres' = [tag |-> "ok",
                 user_time |-> PbDuration(usage.utime),
                 system_time |-> PbDuration(usage.stime),
                 maximum_resident_set_size |-> PbMaxRss(usage.maxrss)]
    /\ UNCHANGED <<svcvars, cmdvars, readyvars, pid1vars, sigvars, waitvars,
                   stkvars, rusage, usage>>

NextUsage ==
    \/ Wait4Usage
    \/ UsageInto

SpecUsage == InitUsage /\ [][NextUsage]_vars

\* ------------------------------------------------------- claims C11..C20

\* The target of request r ended with a signal / with an exit code
TargetSignaled(r) == proc[r].target.kind = "signaled"
TargetExited(r) == proc[r].target.kind = "exited"

\* C11: if the target was terminated by signal S, PID-1 terminated by S as
\* well, and the ExitResult the waiter returns reports termination by S.
C11_SignalFidelity ==
    \A r \in Reqs :
        TargetSignaled(r)
            => /\ proc[r].status = Signaled(proc[r].target.v)
               /\ exit_resuse[r].tag = "ok"
                     => exit_resuse[r].status = Signaled(proc[r].target.v)

\* C12: if the target exited with code c, PID-1 exited with c and a reply
\* built from the waiter's ExitResult has exit_code c; a reply built from
\* a task that ended in an error, hence without a code, has exit_code 255.
C12_ExitCodePassthrough ==
    \A r \in Reqs :
        /\ TargetExited(r) => proc[r].status = Exited(proc[r].target.v)
        /\ (hpc[r] = "replied" /\ exit_resuse[r].tag = "ok" /\ TargetExited(r))
              => /\ reply[r].tag = "ok"
                 /\ reply[r].exit_code = proc[r].target.v
        /\ (hpc[r] = "replied" /\ exit_resuse[r].tag = "err")
              => /\ reply[r].tag = "ok"
                 /\ reply[r].exit_code = InternalExit

C12_Witness ==
    /\ \E r \in Reqs :
          /\ hpc[r] = "replied" /\ exit_resuse[r].tag = "ok"
          /\ proc[r].target = Exited(7)
          /\ reply[r].tag = "ok" /\ reply[r].exit_code = 7
    /\ \E r \in Reqs :
          /\ hpc[r] = "replied" /\ exit_resuse[r].tag = "err"
          /\ reply[r].exit_code = InternalExit

\* C13: a request whose sandbox was terminated by a signal (the target, or
\* PID-1 itself) is answered with a RunResponse whose exit_code is not the
\* code of a successful run.
C13_SignalDeathReplied ==
    \A r \in Reqs :
        (/\ hpc[r] = "replied"
         /\ exit_resuse[r].tag = "ok"
         /\ TargetSignaled(r) \/ proc[r].status.kind = "signaled")
            => /\ reply[r].tag = "ok"
               /\ reply[r].exit_code # 0

\* C14: a request whose task ended in a staging, spawn or wait error is
\* answered with the INTERNAL error status.
C14_FailuresAreInternal ==
    \A r \in Reqs :
        (hpc[r] = "replied" /\ exit_resuse[r].tag = "err")
            => reply[r] = ErrReply("INTERNAL")

\* C15: no request makes its task panic.
C15_NoPanic ==
    \A r \in Reqs : exit_resuse[r].tag # "panic"

\* the memory cap the spawned sandbox runs under: memory.max of its cgroup
EffectiveCap ==
    IF sandbox.cgroup = None THEN None
    ELSE cgfs[Unwrap(sandbox.cgroup)].memory_max

\* C16: a sandbox built without memory_max runs with no memory cap,
\* whatever its job directory was used for before.
C16_CapPerSandbox ==
    (sandbox.spawned /\ sandbox.mem_max = None) => EffectiveCap = None

\* C18: the namespace mask of a builder always holds PID, IPC, NET, MNT and
\* USER, holds UTS exactly if hostname was called and CGROUP exactly if
\* cgroup was called; a builder on which nothing was called has no
\* hostname, no cgroup and no writable path.
C18_BuilderNamespaces ==
    /\ BaseNamespaces \subseteq cmd.namespaces
    /\ "CLONE_NEWUTS" \in cmd.namespaces <=> "hostname" \in called
    /\ "CLONE_NEWCGROUP" \in cmd.namespaces <=> "cgroup" \in called
    /\ called = {} => /\ cmd.hostname = None
                      /\ cmd.cgroup = None
                      /\ cmd.rw_paths = << >>

C18_Witness ==
    /\ {"stdout", "stderr", "hostname", "memory_max", "rw_path", "rw_paths"}
          \subseteq called
    /\ "cgroup" \notin called
    /\ cmd.hostname # None
    /\ "CLONE_NEWUTS" \in cmd.namespaces
    /\ "CLONE_NEWCGROUP" \notin cmd.namespaces

\* C19: a CheckReadiness replies success exactly if its path, joined to
\* the build directory, exists, and INTERNAL "not ready" otherwise; it
\* changes nothing of the server or of the filesystem.
C19_Readiness ==
    [][probe' # probe =>
          /\ Join(BuildDir, probe'.path) \in fs <=> probe'.reply = ReadyOk
          /\ Join(BuildDir, probe'.path) \notin fs <=> probe'.reply = NotReady
          /\ UNCHANGED <<svcvars, extvars, cmdvars, fs>>]_vars

C19_Witness ==
    /\ probe.path = <<"x">>
    /\ probe.reply = ReadyOk
    /\ BuildDir \o <<"x">> \in fs
    /\ BuildDir \o <<"y">> \notin fs

\* the entries of the mount table that no writable path is a prefix of
Guarded == {k \in 1..Len(mtab) : ~LeftWritable(mtab[k].dir)}

\* C17 as stated: when the target has been started, every mount-table
\* entry whose mount point no writable path prefixes is read-only.
C17_AllGuardedReadOnly ==
    p1target => \A k \in Guarded : mtab[k].res = "ro"

\* C17, amended: when the target has been started, every mount-table entry
\* whose mount point no writable path prefixes is read-only, or its
\* remount failed with EACCES, EPERM, EINVAL, ENOENT, ESTALE or ENODEV.
C17_GuardedReadOnlyOrSkipped ==
    p1target =>
        \A k \in Guarded :
            \/ mtab[k].res = "ro"
            \/ mtab[k].err # None /\ mtab[k].err \subseteq SkippedErrnos

C17_Witness ==
    /\ p1target
    /\ p1rw = << <<"/", "b">> >>
    /\ mtab[1].res = "ro"
    /\ mtab[2].res = "none" /\ mtab[2].err = None
    /\ mtab[4].err = Some("EPERM")

\* the setup steps PID-1 has to take: sethostname only with a hostname
StepsDue ==
    SelectSeq(SetupSteps, LAMBDA st : st # "hostname" \/ p1host # None)

\* C20: a started target has steps 1-9 behind it, done in order; a PID-1
\* in which a setup step failed exits nonzero and starts no target.
C20_SetupAllOrNothing ==
    /\ p1target => p1done = StepsDue
    /\ p1failed # {} => /\ ~p1target
                        /\ p1pc = "exited"
                        /\ p1exit.kind = "exited" /\ p1exit.v # 0

\* ------------------------------------------------------- claims C21..C30

\* the remount pass has run to its end
PassDone == "remount" \in Range(p1done)

\* the mount point is a prefix of some writable path
PrefixOfWritable(dir) == \E k \in 1..Len(p1rw) : StartsWith(p1rw[k], dir)

\* the flags the remount of entry k has to carry
DueFlags(k) ==
    MntFlags(mtab[k].opts) \cup {"MS_REMOUNT", "MS_BIND", "MS_RDONLY"}

\* the pass has not touched entry k
Untouched(k) ==
    mtab[k].issued = None /\ mtab[k].res = "none" /\ mtab[k].err = None

\* C21 as stated: after the remount pass, a remount with the entry's flags
\* and MS_REMOUNT, MS_BIND, MS_RDONLY has been issued for exactly the
\* entries whose mount point is not a prefix of any writable path; the
\* entries whose mount point is a prefix of a writable path are untouched.
C21_RemountUnlessPrefixOfWritable ==
    PassDone =>
        \A k \in 1..Len(mtab) :
            IF PrefixOfWritable(mtab[k].dir)
              THEN Untouched(k)
              ELSE mtab[k].issued = Some(DueFlags(k))

\* C21, amended: after the remount pass, a remount with the entry's flags
\* and MS_REMOUNT, MS_BIND, MS_RDONLY has been issued for exactly the
\* entries whose mount point does not start with any writable path; the
\* entries whose mount point starts with a writable path are untouched.
C21_RemountUnlessUnderWritable ==
    PassDone =>
        \A k \in 1..Len(mtab) :
            IF \E j \in 1..Len(p1rw) : StartsWith(mtab[k].dir, p1rw[j])
              THEN Untouched(k)
              ELSE mtab[k].issued = Some(DueFlags(k))

C21_Witness ==
    /\ PassDone
    /\ p1rw = << <<"/", "b">> >>
    /\ mtab[1].issued =
          Some({"MS_RELATIME", "MS_REMOUNT", "MS_BIND", "MS_RDONLY"})
    /\ Untouched(2)
    /\ "MS_NOEXEC" \in Unwrap(mtab[4].issued)

\* Path::starts_with: x is a prefix of dir by whole path components
ComponentPrefix(dir, x) ==
    /\ Len(x) > 0
    /\ StartsWith(dir, x)
    /\ \/ Len(dir) = Len(x)
       \/ x[Len(x)] = "/"
       \/ dir[Len(x) + 1] = "/"

\* C22: after the remount pass, an entry for which no remount was issued
\* equals a writable path or lies beneath one by whole path components.
C22_ComponentMatching ==
    PassDone =>
        \A k \in 1..Len(mtab) :
            mtab[k].issued = None
                => \E j \in 1..Len(p1rw) : ComponentPrefix(mtab[k].dir, p1rw[j])

\* C23: a remount that failed with EACCES, EPERM, EINVAL, ENOENT, ESTALE or
\* ENODEV leaves the pass going (the pass is past that entry, and at its
\* end every entry not left writable has had its remount issued); a
\* remount that failed with another errno ended PID-1 with a nonzero code,
\* with no later entry touched and no target started.
C23_SkipOrAbort ==
    /\ \A k \in 1..Len(mtab) :
          mtab[k].err # None =>
              IF Unwrap(mtab[k].err) \in
                    {"EACCES", "EPERM", "EINVAL", "ENOENT", "ESTALE", "ENODEV"}
                THEN ridx > k
                ELSE /\ p1pc = "exited"
                     /\ p1exit.kind = "exited" /\ p1exit.v # 0
                     /\ ~p1target
                     /\ \A j \in (k + 1)..Len(mtab) : Untouched(j)
    /\ PassDone =>
          \A k \in 1..Len(mtab) :
              LeftWritable(mtab[k].dir) \/ mtab[k].issued # None

C23_Witness ==
    /\ p1rw = << >>
    /\ mtab[1].err = Some("ENODEV")
    /\ mtab[2].err = Some("EBUSY")
    /\ Untouched(3)
    /\ p1pc = "exited"

\* C24: after reset_signals has returned Ok, every signal other than
\* SIGKILL, SIGSTOP, SIGTTIN and SIGTTOU has the default disposition,
\* SIGTTIN and SIGTTOU are ignored, no signal is blocked and the
\* parent-death signal is SIGKILL.
C24_SignalReset ==
    sigpc = "done" =>
        /\ \A sg \in Signals \ {"SIGKILL", "SIGSTOP", "SIGTTIN", "SIGTTOU"} :
              disp[sg] = "default"
        /\ disp["SIGTTIN"] = "ignore"
        /\ disp["SIGTTOU"] = "ignore"
        /\ sigmask = {}
        /\ pdeathsig = Some("SIGKILL")

C26_Fifo ==
    /\ Len(queue) = numCpus
    /\ \A i \in 1..numCpus : queue[i] = i - 1
    /\ [][\A r \in Reqs :
            /\ processor'[r] # processor[r]
                  => /\ processor'[r] = queue[1]
                     /\ queue' = SubSeq(queue, 2, Len(queue))
            /\ (given'[r] /\ ~given[r])
                  => queue' = queue \o <<processor[r]>>]_vars

\* slot 0 was taken and given back, and the next take got slot 1, which
\* had been in the queue longer
C26_Witness ==
    \E r1, r2 \in Reqs :
        /\ processor[r1] = 0 /\ given[r1]
        /\ processor[r2] = 1 /\ tpc[r2] = "stage"
        /\ queue = <<0>>

\* the writes of request r to PID-1's uid_map, setgroups and gid_map
MapWrites(r) == SelectSeq(written[r], LAMBDA f : f \in DOMAIN MapContents)

IsPrefix(a, b) == Len(a) <= Len(b) /\ SubSeq(b, 1, Len(a)) = a

\* C27: the parent writes "0 <outer_uid> 1" to uid_map, then "deny" to
\* setgroups, then "0 <outer_gid> 1" to gid_map, in that order (gid_map
\* never without setgroups before it); a write happens only in a spawn no
\* write of which has failed, so none follows a failed one.
C27_MapWriteOrder ==
    /\ MapContents.uid_map = <<"0", "outer_uid", "1">>
    /\ MapContents.setgroups = <<"deny">>
    /\ MapContents.gid_map = <<"0", "outer_gid", "1">>
    /\ [](\A r \in Reqs :
            IsPrefix(MapWrites(r), <<"uid_map", "setgroups", "gid_map">>))
    /\ [][\A r \in Reqs :
            written'[r] # written[r]
                => /\ exit_resuse[r].tag = "none"
                   /\ tpc[r] # "done"
                   /\ written'[r] = Append(written[r], tpc[r])]_vars

\* one spawn wrote all three; in another the gid_map write failed after
\* uid_map and setgroups, and nothing was written after it
C27_Witness ==
    \E r1, r2 \in Reqs :
        /\ MapWrites(r1) = <<"uid_map", "setgroups", "gid_map">>
        /\ written[r2] = <<"uid_map", "setgroups">>
        /\ tpc[r2] = "done" /\ exit_resuse[r2].tag = "err"

\* C28: StackMap::new has succeeded only for a positive multiple of the
\* page size, with a mapping of stack_size + page_size bytes whose lowest
\* page is the guard; for any other stack_size, 0 included, it has failed
\* with EINVAL.
C28_StackMapNew ==
    /\ stack.tag \in {"ok", "dropped"}
          => /\ stack_size > 0
             /\ stack_size % PageSize = 0
             /\ stack.mmap_size = stack_size + PageSize
             /\ stack.rw > 0 => stack.guard = PageSize
    /\ (stack.tag # "none" /\ (stack_size = 0 \/ stack_size % PageSize # 0))
          => stack = StackErr("EINVAL")

\* the microseconds of a reported duration and of a timeval, exactly
PbMicros(d) ==
    AddWide(MulSmall(MulSmall(d.seconds, 1000, WideLimbs), 1000, WideLimbs),
            Word(d.nanos \div 1000), WideLimbs)
TimevalMicros(val) ==
    AddWide(MulSmall(MulSmall(val.tv_sec, 1000, WideLimbs), 1000, WideLimbs),
            val.tv_usec, WideLimbs)

\* C29: the reported max_rss is the kernel's ru_maxrss times 1024, and the
\* reported user and system times are tv_sec * 1,000,000 + tv_usec
\* microseconds, exactly, for every rusage the kernel can return; no
\* conversion overflows.
C29_UsageExact ==
    /\ usage.tag # "panic"
    /\ usage.tag = "ok"
          => /\ Trunc(usage.maxrss, WideLimbs)
                    = MulSmall(rusage.ru_maxrss, 1024, WideLimbs)
             /\ usage.utime = FromMicros(Trunc(TimevalMicros(rusage.ru_utime),
                                               WordLimbs))
             /\ FitsU64(TimevalMicros(rusage.ru_utime))
    /\ pbres.tag = "ok"
          => /\ Trunc(pbres.maximum_resident_set_size, WideLimbs)
                    = MulSmall(rusage.ru_maxrss, 1024, WideLimbs)
             /\ pbres.user_time # None
             /\ pbres.system_time # None
             /\ PbMicros(Unwrap(pbres.user_time))
                    = TimevalMicros(rusage.ru_utime)
             /\ PbMicros(Unwrap(pbres.system_time))
                    = TimevalMicros(rusage.ru_stime)
             /\ Unwrap(pbres.user_time).nanos % 1000 = 0
             /\ Unwrap(pbres.system_time).nanos % 1000 = 0

C29_Witness ==
    /\ pbres.tag = "ok"
    /\ rusage.ru_maxrss = <<65535, 65535, 65535, 31>>
    /\ rusage.ru_utime = [tv_sec |-> <<64009, 19330, 4, 0>>,
                          tv_usec |-> Word(999999)]
    /\ pbres.maximum_resident_set_size = <<64512, 65535, 65535, 32767>>

\* C30: the waiter issues a kill only from its select!, which it never
\* reaches again once wait4 has returned PID-1's status: every SIGKILL goes
\* to a PID-1 that the waiter has not reaped, and none follows the reap.
C30_NoKillAfterReap ==
    /\ \A r \in Reqs : proc[r].st # "reaped"
    /\ [](\A r \in Reqs :
            proc[r].st = "reaped" => tpc[r] \notin {"select", "poll"})
    /\ [][\A r \in Reqs :
            kills'[r] # kills[r]
                => /\ kills'[r] = kills[r] + 1
                   /\ tpc[r] = "select"
                   /\ Live(proc[r]) \/ proc[r].st = "zombie"]_vars

C30_Witness ==
    \E r \in Reqs :
        /\ kills[r] = 1
        /\ proc[r].st = "reaped"
        /\ exit_resuse[r] = OkResult(proc[r].status)
        /\ token[r]
        /\ tpc[r] = "give"

\* ------------------------------------------------------- claims C31..C32
\* the PID-1s that were cloned and have not been reaped
LivePid1s == {r \in Reqs : Unreaped(r)}

\* C31: at every moment the number of PID-1 processes that were spawned
\* and are not yet reaped is at most num_cpus.
C31_LiveAtMostCpus == Cardinality(LivePid1s) <= numCpus

\* spawn returned an error after clone and before the gate byte: a map
\* write, the cgroup move or the write of the byte itself failed
SpawnFailedBeforeGate(r) ==
    /\ SpawnFailedAfterClone(r)
    /\ "gate" \notin Range(written[r])

\* C32: when the parent's spawn has failed after clone, its write end
\* dropped and no gate byte written, that PID-1 never passes its start
\* gate and never executes the target command.
C32_NoTargetAfterSpawnFailure ==
    \A r \in Reqs :
        SpawnFailedBeforeGate(r)
            => /\ ~proc[r].gated
               /\ ~proc[r].execd
               /\ proc[r].target = NoStatus
               /\ proc[r].st \notin {"setup", "running"}

C32_Witness ==
    \E r \in Reqs :
        /\ SpawnFailedBeforeGate(r)
        /\ Len(written[r]) >= 3
        /\ "parent" \notin pipe[r].wends
        /\ proc[r].st = "gate"

====
